---------------------------- MODULE Spec2Model ----------------------------
(***************************************************************************)
(* A model of the VHD core of xen-orchestra:                               *)
(*   - packages/vhd-lib/src/merge.js        the merge engine and its gate  *)
(*   - packages/xo-vmdk-to-vhd/src/vhd-write.js                            *)
(*         SparseExtent / VHDFile           the sparse image builder       *)
(*         ReadableRawVHDStream             the streaming converter        *)
(*                                                                         *)
(* The specifications share the module: SpecMerge and SpecQueue (merge),   *)
(* SpecBuilder, SpecStream and SpecDemand (converter), the last three also *)
(* with fairness.  Each one moves only the variables of its own subsystem. *)
(***************************************************************************)
EXTENDS Integers, Sequences, FiniteSets, TLC

VARIABLES
    work,       \* merge: call id -> the parent/child disk pair it is given
    m,          \* merge: call id -> the state of that invocation of merge
    gate,       \* merge: the limiter of concurrency(2): free slots, FIFO queue
    extent,     \* builder: the SparseExtent (table, entries, startOffset)
    bpc,        \* builder: where writeFile stands
    file,       \* builder: the file writeFile produces
    virt,       \* builder: virtual byte position -> the byte last written there
    last,       \* builder: the last writeBuffer call and what became of it
    conv,       \* converter: the fields of the ReadableRawVHDStream
    parser,     \* converter: the grain source and the pending next()
    sink        \* converter: the Readable side: pushes, errors, ticks

mergeVars == <<work, m, gate>>

builderVars == <<extent, bpc, file, virt, last>>

streamVars == <<conv, parser, sink>>

vars == <<work, m, gate, extent, bpc, file, virt, last, conv, parser, sink>>

(***************************************************************************)
(*                              MERGE ENGINE                               *)
(***************************************************************************)

\* Bounds of the merge workloads.
NumCalls == 3        \* merge calls launched in the batch workload
MaxEntries == 3      \* largest child.header.maxTableEntries
MaxBytes == 2        \* largest byte count one coalesceBlock reports

\* merge.js:7 imports these from ./_constants (VHD footer disk types).
DISK_TYPE_FIXED == 2
DISK_TYPE_DYNAMIC == 3
DISK_TYPE_DIFFERENCING == 4

DiskTypes == {DISK_TYPE_FIXED, DISK_TYPE_DYNAMIC, DISK_TYPE_DIFFERENCING}

\* Two block sizes are enough for "equal" and "different".
BlockSizes == {1, 2}

\* The limit handed to the decorator: concurrency(2).
MutConcurrency3 == 2 + 1
MergeConcurrency == 2

\* The footer fields merge copies, and the one (of those it leaves alone)
\* that it reads.
ParentFooter(t) ==
    [currentSize |-> 10, diskGeometry |-> 11, originalSize |-> 12,
     timestamp |-> 13, uuid |-> 14, diskType |-> t]

ChildFooter(t) ==
    [currentSize |-> 20, diskGeometry |-> 21, originalSize |-> 22,
     timestamp |-> 23, uuid |-> 24, diskType |-> t]

\* What coalesceBlock can report for a block: the bytes it wrote, which the
\* child's block decides (Vhd.coalesceBlock, ./vhd).
ByteCounts == 0..MaxBytes

\* What the two files of one merge call hold when the call reads them.
Disks ==
    { [pBlockSize |-> pb, cBlockSize |-> cb, pType |-> pt, cType |-> ct,
       entries |-> n, blocks |-> DOMAIN by, bytes |-> by] :
        pb \in BlockSizes, cb \in BlockSizes, pt \in DiskTypes, ct \in DiskTypes,
        n \in 0..MaxEntries,
        by \in UNION { [bs -> ByteCounts] : bs \in SUBSET (0..(MaxEntries - 1)) } }

\* A block the child contains lies below its maxTableEntries.
ValidDisks == { d \in Disks : d.blocks \subseteq 0..(d.entries - 1) }

\* The pair every call of the batch workload is given: a well-formed
\* differencing child with one allocated block on a dynamic parent.
BatchDisk ==
    [pBlockSize |-> 1, cBlockSize |-> 1, pType |-> DISK_TYPE_DYNAMIC,
     cType |-> DISK_TYPE_DIFFERENCING, entries |-> 1, blocks |-> {0},
     bytes |-> [b \in {0} |-> 1]]

Handles == {"parent", "child"}

NoCall ==
    [pc |-> "idle", parentOpen |-> FALSE, childOpen |-> FALSE,
     pClosed |-> 0, cClosed |-> 0, pend |-> {}, stray |-> {},
     failed |-> FALSE, blockId |-> 0, mergedDataSize |-> 0,
     log |-> <<>>, pFooter |-> ParentFooter(0), cFooter |-> ChildFooter(0),
     result |-> 0, outcome |-> "none", waited |-> FALSE]

\* An operation invoked on parentVhd that changes the parent: one log entry.
Invoke(s, op, arg) ==
    [s EXCEPT !.log = Append(@, [op |-> op, arg |-> arg, st |-> "pending",
                                 ret |-> 0])]

\* The awaited operation (the last one invoked) completes: it returned ret
\* (st = "ok") or threw (st = "failed").
Complete(s, st, ret) ==
    [s EXCEPT !.log = [@ EXCEPT ![Len(s.log)].st = st,
                                ![Len(s.log)].ret = ret]]

\* finally { await childHandler.closeFile(childFd) }: entered with the error
\* (if any) that is propagating; closeFile(childFd) is invoked.
EnterCloseChild(s, err) ==
    [s EXCEPT !.pc = "closeChild", !.cClosed = @ + 1, !.failed = err,
              !.pend = {}]

\* finally { await parentHandler.closeFile(parentFd) }
MutEnterCloseParentSkip(s, err) ==
    [s EXCEPT !.pc = "closeParent", !.failed = err,
              !.pClosed = IF err /\ ~s.childOpen THEN @ ELSE @ + 1]
EnterCloseParent(s, err) ==
    [s EXCEPT !.pc = "closeParent", !.pClosed = @ + 1, !.failed = err]

\* The promise of merge settles.  What the invocation held (its Vhd objects
\* and counters) is gone with it, and a read it left in flight is followed no
\* further; what it did to the handles and the parent stays on record.
Settled(s, err) ==
    [NoCall EXCEPT !.pc = "done",
                   !.outcome = IF err THEN "rejected" ELSE "resolved",
                   !.result = IF err THEN 0 ELSE s.result,
                   !.parentOpen = s.parentOpen, !.childOpen = s.childOpen,
                   !.pClosed = s.pClosed, !.cClosed = s.cClosed,
                   !.log = s.log]

\* const parentFd = await parentHandler.openFile(parentPath, 'r+'), then
\* childHandler.openFile(childPath, 'r') is invoked.
AfterOpenParent(s, ok) ==
    IF ok THEN [s EXCEPT !.pc = "openChild", !.parentOpen = TRUE]
    ELSE Settled(s, TRUE)

\* const childFd = await childHandler.openFile(childPath, 'r'), then both
\* readHeaderAndFooter() are invoked (Promise.all).
AfterOpenChild(s, ok) ==
    IF ok THEN [s EXCEPT !.pc = "readHeaderAndFooter", !.childOpen = TRUE,
                         !.pend = Handles]
    ELSE EnterCloseParent(s, TRUE)

\* The three assertions of merge.
MutAssertsNoChildType(s, d) ==
    /\ d.cBlockSize = d.pBlockSize
    /\ s.pFooter.diskType \in {DISK_TYPE_DIFFERENCING, DISK_TYPE_DYNAMIC}
Asserts(s, d) ==
    /\ d.cBlockSize = d.pBlockSize
    /\ s.pFooter.diskType \in {DISK_TYPE_DIFFERENCING, DISK_TYPE_DYNAMIC}
    /\ s.cFooter.diskType = DISK_TYPE_DIFFERENCING

\* One readHeaderAndFooter() of the Promise.all completes.  A rejection
\* rejects the Promise.all at once: the other read, if still pending, stays
\* in flight (stray).  When both have succeeded the assertions run and both
\* readBlockAllocationTable() are invoked.
AfterReadHeaderAndFooter(s, d, h, ok) ==
    IF ~ok THEN EnterCloseChild([s EXCEPT !.stray = s.pend \ {h}], TRUE)
    ELSE LET s1 == [s EXCEPT !.pend = @ \ {h},
                             !.pFooter = IF h = "parent"
                                         THEN ParentFooter(d.pType) ELSE @,
                             !.cFooter = IF h = "child"
                                         THEN ChildFooter(d.cType) ELSE @]
         IN  IF s1.pend # {} THEN s1
             ELSE IF Asserts(s1, d)
                  THEN [s1 EXCEPT !.pc = "readBlockAllocationTable",
                                  !.pend = Handles]
                  ELSE EnterCloseChild(s1, TRUE)

\* One readBlockAllocationTable() of the Promise.all completes; when both
\* have, parentVhd.ensureBatSize(childVhd.header.maxTableEntries) is invoked.
AfterReadBlockAllocationTable(s, d, h, ok) ==
    IF ~ok THEN EnterCloseChild([s EXCEPT !.stray = s.pend \ {h}], TRUE)
    ELSE LET s1 == [s EXCEPT !.pend = @ \ {h}]
         IN  IF s1.pend # {} THEN s1
             ELSE Invoke([s1 EXCEPT !.pc = "ensureBatSize"],
                         "ensureBatSize", d.entries)

\* The for loop's search: the first blockId >= from below maxTableEntries
\* with childVhd.containsBlock(blockId); maxTableEntries when there is none.
MutNextBlockNoContains(d, from) ==
    IF from < d.entries THEN from ELSE d.entries
NextBlock(d, from) ==
    LET cand == { b \in d.blocks : b >= from /\ b < d.entries }
    IN  IF cand = {} THEN d.entries
        ELSE CHOOSE b \in cand : \A c \in cand : b <= c

\* pFooter.currentSize = cFooter.currentSize ... pFooter.uuid = cFooter.uuid
MutCopyFooterNoUuid(pf, cf) ==
    [pf EXCEPT !.currentSize = cf.currentSize,
               !.diskGeometry = cf.diskGeometry,
               !.originalSize = cf.originalSize,
               !.timestamp = cf.timestamp]
CopyFooter(pf, cf) ==
    [pf EXCEPT !.currentSize = cf.currentSize,
               !.diskGeometry = cf.diskGeometry,
               !.originalSize = cf.originalSize,
               !.timestamp = cf.timestamp,
               !.uuid = cf.uuid]

\* The loop from blockId = from up to its next await: either coalesceBlock
\* is invoked for the next block the child contains, or the loop is over,
\* the footer fields are copied and writeFooter() is invoked.
Loop(s, d, from) ==
    LET nb == NextBlock(d, from)
    IN  IF nb < d.entries
        THEN Invoke([s EXCEPT !.pc = "coalesceBlock", !.blockId = nb],
                    "coalesceBlock", nb)
        ELSE Invoke([s EXCEPT !.pc = "writeFooter",
                              !.pFooter = CopyFooter(s.pFooter, s.cFooter)],
                    "writeFooter", 0)

\* await parentVhd.ensureBatSize(...) completes; let mergedDataSize = 0.
AfterEnsureBatSize(s, d, ok) ==
    IF ok THEN Loop([Complete(s, "ok", 0) EXCEPT !.mergedDataSize = 0], d, 0)
    ELSE EnterCloseChild(Complete(s, "failed", 0), TRUE)

\* mergedDataSize += <the awaited byte count>
MutAccumulateLast(total, bytes) == bytes
Accumulate(total, bytes) == total + bytes

\* await parentVhd.coalesceBlock(childVhd, blockId) completes; blockId++.
MutAfterCoalesceBlockGoesOn(s, d, ok, bytes) ==
    IF ok
    THEN Loop([Complete(s, "ok", bytes) EXCEPT
                  !.mergedDataSize = Accumulate(@, bytes)], d, s.blockId + 1)
    ELSE Loop(Complete(s, "failed", 0), d, s.blockId + 1)
AfterCoalesceBlock(s, d, ok, bytes) ==
    IF ok
    THEN Loop([Complete(s, "ok", bytes) EXCEPT
                  !.mergedDataSize = Accumulate(@, bytes)], d, s.blockId + 1)
    ELSE EnterCloseChild(Complete(s, "failed", 0), TRUE)

\* await parentVhd.writeFooter() completes; return mergedDataSize.
AfterWriteFooter(s, ok) ==
    IF ok
    THEN EnterCloseChild([Complete(s, "ok", 0) EXCEPT !.result = s.mergedDataSize],
                         FALSE)
    ELSE EnterCloseChild(Complete(s, "failed", 0), TRUE)

\* closeFile(childFd) completes: its error, if any, replaces the outcome.
AfterCloseChild(s, ok) == EnterCloseParent(s, s.failed \/ ~ok)

\* closeFile(parentFd) completes: merge settles.
AfterCloseParent(s, ok) == Settled(s, s.failed \/ ~ok)

\* ---- the limiter: concurrency(2)(async function merge ...) ----

Calls == DOMAIN work

\* A call past admission and not yet settled.
Running(c) == m[c].pc \notin {"idle", "queued", "done"}

\* The wrapped function starts: parentHandler.openFile(parentPath, 'r+').
Start(s) == [s EXCEPT !.pc = "openParent"]

\* merge(...) is called: it starts at once when a slot is free, and waits in
\* the limiter's queue otherwise.
MutCallPrepend(c) ==
    /\ m[c].pc = "idle"
    /\ \A b \in Calls : b < c => m[b].pc # "idle"
    /\ IF gate.free > 0
       THEN /\ gate' = [gate EXCEPT !.free = @ - 1]
            /\ m' = [m EXCEPT ![c] = Start(@)]
       ELSE /\ gate' = [gate EXCEPT !.queue = <<c>> \o @]
            /\ m' = [m EXCEPT ![c].pc = "queued", ![c].waited = TRUE]
    /\ UNCHANGED <<work, builderVars, streamVars>>
Call(c) ==
    /\ m[c].pc = "idle"
    /\ \A b \in Calls : b < c => m[b].pc # "idle"
    /\ IF gate.free > 0
       THEN /\ gate' = [gate EXCEPT !.free = @ - 1]
            /\ m' = [m EXCEPT ![c] = Start(@)]
       ELSE /\ gate' = [gate EXCEPT !.queue = Append(@, c)]
            /\ m' = [m EXCEPT ![c].pc = "queued", ![c].waited = TRUE]
    /\ UNCHANGED <<work, builderVars, streamVars>>

\* Call c moves to s1.  When that settles it, its slot goes to the head of
\* the queue, or back to the limiter when nobody waits.
Step(c, s1) ==
    /\ IF s1.pc # "done"
       THEN /\ m' = [m EXCEPT ![c] = s1]
            /\ gate' = gate
       ELSE IF gate.queue # <<>>
            THEN /\ m' = [m EXCEPT ![c] = s1,
                                   ![Head(gate.queue)] = Start(@)]
                 /\ gate' = [gate EXCEPT !.queue = Tail(@)]
            ELSE /\ m' = [m EXCEPT ![c] = s1]
                 /\ gate' = [gate EXCEPT !.free = @ + 1]
    /\ UNCHANGED <<work, builderVars, streamVars>>

OpenParentDone(c) ==
    /\ m[c].pc = "openParent"
    /\ \E ok \in BOOLEAN : Step(c, AfterOpenParent(m[c], ok))

OpenChildDone(c) ==
    /\ m[c].pc = "openChild"
    /\ \E ok \in BOOLEAN : Step(c, AfterOpenChild(m[c], ok))

ReadHeaderAndFooterDone(c) ==
    /\ m[c].pc = "readHeaderAndFooter"
    /\ \E h \in m[c].pend, ok \in BOOLEAN :
          Step(c, AfterReadHeaderAndFooter(m[c], work[c], h, ok))

ReadBlockAllocationTableDone(c) ==
    /\ m[c].pc = "readBlockAllocationTable"
    /\ \E h \in m[c].pend, ok \in BOOLEAN :
          Step(c, AfterReadBlockAllocationTable(m[c], work[c], h, ok))

\* A read left in flight by a rejected Promise.all completes; nobody waits
\* for it.
StrayReadDone(c) ==
    /\ \E h \in m[c].stray : m' = [m EXCEPT ![c].stray = @ \ {h}]
    /\ UNCHANGED <<work, gate, builderVars, streamVars>>

EnsureBatSizeDone(c) ==
    /\ m[c].pc = "ensureBatSize"
    /\ \E ok \in BOOLEAN : Step(c, AfterEnsureBatSize(m[c], work[c], ok))

CoalesceBlockDone(c) ==
    /\ m[c].pc = "coalesceBlock"
    /\ \E ok \in BOOLEAN :
          Step(c, AfterCoalesceBlock(m[c], work[c], ok,
                                     work[c].bytes[m[c].blockId]))

WriteFooterDone(c) ==
    /\ m[c].pc = "writeFooter"
    /\ \E ok \in BOOLEAN : Step(c, AfterWriteFooter(m[c], ok))

CloseChildDone(c) ==
    /\ m[c].pc = "closeChild"
    /\ \E ok \in BOOLEAN : Step(c, AfterCloseChild(m[c], ok))

CloseParentDone(c) ==
    /\ m[c].pc = "closeParent"
    /\ \E ok \in BOOLEAN : Step(c, AfterCloseParent(m[c], ok))

\* Nothing is being built.
IdleBuilder ==
    /\ extent = [entryCount |-> 0, buffer |-> <<>>, entries |-> <<>>,
                 startOffset |-> 0]
    /\ bpc = "idle"
    /\ file = <<>>
    /\ virt = <<>>
    /\ last = <<>>

\* Nothing is being converted.
IdleStream ==
    /\ conv = <<>>
    /\ parser = <<>>
    /\ sink = <<>>

\* One merge call on any pair of disks, or a batch of NumCalls calls.
InitMerge ==
    /\ work \in [1..1 -> ValidDisks] \cup {[c \in 1..NumCalls |-> BatchDisk]}
    /\ m = [c \in DOMAIN work |-> NoCall]
    /\ gate = [free |-> MergeConcurrency, queue |-> <<>>]
    /\ IdleBuilder
    /\ IdleStream

NextMerge ==
    \/ \E c \in Calls : Call(c)
    \/ \E c \in Calls : OpenParentDone(c)
    \/ \E c \in Calls : OpenChildDone(c)
    \/ \E c \in Calls : ReadHeaderAndFooterDone(c)
    \/ \E c \in Calls : ReadBlockAllocationTableDone(c)
    \/ \E c \in Calls : StrayReadDone(c)
    \/ \E c \in Calls : EnsureBatSizeDone(c)
    \/ \E c \in Calls : CoalesceBlockDone(c)
    \/ \E c \in Calls : WriteFooterDone(c)
    \/ \E c \in Calls : CloseChildDone(c)
    \/ \E c \in Calls : CloseParentDone(c)

SpecMerge == InitMerge /\ [][NextMerge]_vars

\* ---- the queue workload: more calls than the limiter has slots ----

\* Calls that have to wait when all are made before any settles.
NumQueued == 2

QueueCalls == 1..(MergeConcurrency + NumQueued)

\* A pair whose block sizes differ: its merge fails at the assertions.
MismatchDisk == [BatchDisk EXCEPT !.cBlockSize = 2]

\* The first call merges a well-formed pair, the others a mismatched one.
InitQueue ==
    /\ work = [c \in QueueCalls |->
                  IF c = 1 THEN BatchDisk ELSE MismatchDisk]
    /\ m = [c \in DOMAIN work |-> NoCall]
    /\ gate = [free |-> MergeConcurrency, queue |-> <<>>]
    /\ IdleBuilder
    /\ IdleStream

SpecQueue == InitQueue /\ [][NextMerge]_vars

\* An operation a running merge awaits settles.
MergeProgress ==
    \E c \in Calls :
        \/ OpenParentDone(c)
        \/ OpenChildDone(c)
        \/ ReadHeaderAndFooterDone(c)
        \/ ReadBlockAllocationTableDone(c)
        \/ EnsureBatSizeDone(c)
        \/ CoalesceBlockDone(c)
        \/ WriteFooterDone(c)
        \/ CloseChildDone(c)
        \/ CloseParentDone(c)

\* The operations running merges await keep settling.
SpecQueueFair == SpecQueue /\ WF_vars(MergeProgress)

(***************************************************************************)
(*                          SPARSE IMAGE BUILDER                           *)
(*                                                                         *)
(* Sizes are scaled down and keep the proportions of the program: a sector *)
(* is 2 bytes (512 in the program), a block 8 * sector * sector bytes      *)
(* (0x00200000 = 8 * 512 * 512), so that a block's bitmap is one sector;   *)
(* the footer is one sector and the header two (fuFooter.size = 512,       *)
(* fuHeader.size = 1024).                                                  *)
(***************************************************************************)

\* Bounds of the builder's workload.
MaxWrites == 2       \* writeBuffer calls before writeFile
MaxDiskBlocks == 2   \* largest entry count of the table

VHD_SECTOR_SIZE == 2

BlockSize == 8 * VHD_SECTOR_SIZE * VHD_SECTOR_SIZE

FooterSize == VHD_SECTOR_SIZE

HeaderSize == 2 * VHD_SECTOR_SIZE

\* Math.ceil(a / b) for a >= 0, b > 0.
CeilDiv(a, b) == (a + b - 1) \div b

Min(a, b) == IF a < b THEN a ELSE b

\* buffer.slice(start, end) for start >= 0 and end >= 0: both are clamped to
\* the buffer's length.
Slice(buffer, start, end) ==
    LET e == Min(end, Len(buffer))
    IN  IF start >= e THEN <<>> ELSE SubSeq(buffer, start + 1, e)

\* class Block: the sizes of its buffer and of the bitmap at its front.
BitmapSize == (BlockSize \div VHD_SECTOR_SIZE) \div 8

BlockBufferSize ==
    CeilDiv(BlockSize + BitmapSize, VHD_SECTOR_SIZE) * VHD_SECTOR_SIZE

\* new Block(blockSize): a zeroed buffer whose bitmap is filled with 0xff.
NewBlock ==
    [i \in 1..BlockBufferSize |-> IF i <= BitmapSize THEN 255 ELSE 0]

\* Block.writeData: buffer.copy(this.dataBuffer, offset); what would fall
\* behind the end of the target is not copied.
WriteData(block, buffer, offset) ==
    [i \in 1..Len(block) |->
        IF i > BitmapSize /\ (i - BitmapSize - offset) \in 1..Len(buffer)
        THEN buffer[i - BitmapSize - offset]
        ELSE block[i]]

\* createEmptyTable(dataSize, blockSize)
CreateEmptyTable(dataSize, blockSize) ==
    LET blockCount == CeilDiv(dataSize, blockSize)
        tableSizeSectors == CeilDiv(blockCount * 4, VHD_SECTOR_SIZE)
    IN  [entryCount |-> blockCount,
         buffer |-> [i \in 1..(tableSizeSectors * VHD_SECTOR_SIZE) |-> 255],
         entries |-> <<>>]

\* new SparseExtent(dataSize, blockSize, startOffset): startOffset becomes
\* the sector at which the first block will lie.
MutStartOffsetNoTable(table, startOffset) == startOffset \div VHD_SECTOR_SIZE
StartOffset(table, startOffset) ==
    (startOffset + Len(table.buffer)) \div VHD_SECTOR_SIZE

SparseExtent(dataSize, blockSize, startOffset) ==
    LET table == CreateEmptyTable(dataSize, blockSize)
    IN  [entryCount |-> table.entryCount, buffer |-> table.buffer,
         entries |-> table.entries,
         startOffset |-> StartOffset(table, startOffset)]

\* The sub-buffer and in-block offset writeBuffer computes for block i.
MutPieceUncut(buffer, offset, i) ==
    LET blockDelta == offset - i * BlockSize
    IN  IF blockDelta > 0
        THEN [index |-> i,
              blockBuffer |-> buffer,
              blockOffset |-> blockDelta]
        ELSE [index |-> i,
              blockBuffer |-> Slice(buffer, 0 - blockDelta,
                                    (i + 1) * BlockSize - offset),
              blockOffset |-> 0]
Piece(buffer, offset, i) ==
    LET blockDelta == offset - i * BlockSize
    IN  IF blockDelta > 0
        THEN [index |-> i,
              blockBuffer |-> Slice(buffer, 0, (i + 1) * BlockSize - offset),
              blockOffset |-> blockDelta]
        ELSE [index |-> i,
              blockBuffer |-> Slice(buffer, 0 - blockDelta,
                                    (i + 1) * BlockSize - offset),
              blockOffset |-> 0]

\* _writeBlock's rejection: 'invalid block geometry'.
WriteBlockThrows(blockBuffer, offset) ==
    Len(blockBuffer) + offset > BlockSize

\* _writeBlock past its check: allocate the block on first touch, then copy.
WriteBlock(ext, blockBuffer, tableIndex, offset) ==
    LET entry == IF tableIndex \in DOMAIN ext.entries
                 THEN ext.entries[tableIndex] ELSE NewBlock
    IN  [ext EXCEPT !.entries =
            (tableIndex :> WriteData(entry, blockBuffer, offset)) @@ @]

\* writeBuffer's loop from block i: the extent it leaves, the pieces it
\* handed to _writeBlock, and whether _writeBlock threw.
RECURSIVE WriteBufferLoop(_, _, _, _, _, _)
WriteBufferLoop(ext, buffer, offset, i, endBlock, pieces) ==
    IF i >= endBlock
    THEN [extent |-> ext, pieces |-> pieces, thrown |-> FALSE]
    ELSE LET pc == Piece(buffer, offset, i)
         IN  IF WriteBlockThrows(pc.blockBuffer, pc.blockOffset)
             THEN [extent |-> ext, pieces |-> Append(pieces, pc),
                   thrown |-> TRUE]
             ELSE WriteBufferLoop(
                      WriteBlock(ext, pc.blockBuffer, i, pc.blockOffset),
                      buffer, offset, i + 1, endBlock, Append(pieces, pc))

\* SparseExtent.writeBuffer(buffer, offset), offset >= 0.
WriteBuffer(ext, buffer, offset) ==
    LET startBlock == offset \div BlockSize
        endBlock == CeilDiv(offset + Len(buffer), BlockSize)
    IN  WriteBufferLoop(ext, buffer, offset, startBlock, endBlock, <<>>)

\* buf.writeUInt32BE(value, offset)
UInt32BE(value) ==
    << (value \div 16777216) % 256, (value \div 65536) % 256,
       (value \div 256) % 256, value % 256 >>

WriteUInt32BE(buf, value, offset) ==
    [k \in 1..Len(buf) |->
        IF k \in (offset + 1)..(offset + 4)
        THEN UInt32BE(value)[k - offset] ELSE buf[k]]

\* How far a block moves the offset cursor of writeOnFile, in sectors.
BlockSectors(block) == Len(block) \div VHD_SECTOR_SIZE

\* writeOnFile's first loop: stamp the sector offset of every allocated
\* block below entryCount into the table's buffer.
RECURSIVE StampTable(_, _, _, _, _)
StampTable(buffer, entries, i, entryCount, currentOffset) ==
    IF i >= entryCount THEN buffer
    ELSE IF i \in DOMAIN entries
         THEN StampTable(WriteUInt32BE(buffer, currentOffset, i * 4), entries,
                         i + 1, entryCount,
                         currentOffset + BlockSectors(entries[i]))
         ELSE StampTable(buffer, entries, i + 1, entryCount, currentOffset)

\* writeOnFile's second loop: the next allocated block at or after from,
\* entryCount when there is none.
NextAllocated(ext, from) ==
    LET cand == { i \in DOMAIN ext.entries : i >= from /\ i < ext.entryCount }
    IN  IF cand = {} THEN ext.entryCount
        ELSE CHOOSE i \in cand : \A j \in cand : i <= j

\* createFooter(...) and createDynamicDiskHeader(...): the packed structures,
\* of which the model keeps the length and, for the header, the fields a
\* reader of the file needs.
FooterBytes == [i \in 1..FooterSize |-> 99]

HeaderBytes == [i \in 1..HeaderSize |-> 120]

CreateDynamicDiskHeader(tableEntries, blockSize) ==
    [tableOffset |-> VHD_SECTOR_SIZE * 3, maxTableEntries |-> tableEntries,
     blockSize |-> blockSize]

\* The bytes of the n-th buffer handed to writeBuffer: they differ from one
\* write to the next and from one index to the next, and are never 0.
Buf(n, len) == [j \in 1..len |-> (n - 1) * 100 + j]

\* The offsets and lengths of the writes: at a block's start, just inside
\* it, at its last byte; empty, inside one block, a whole block, and long
\* enough to touch three blocks.
Offsets ==
    { b * BlockSize + d : b \in 0..MaxDiskBlocks, d \in {0, BlockSize - 1} }
        \cup {1}

Lengths == {0, 2, BlockSize, BlockSize + 2}

\* geometry.actualSize: whole sectors, up to MaxDiskBlocks blocks.
DataSizes ==
    { n * BlockSize - r * VHD_SECTOR_SIZE : n \in 1..MaxDiskBlocks,
                                            r \in {0, 1} }

NoFile ==
    [opened |-> FALSE, closed |-> FALSE, bytes |-> <<>>,
     header |-> CreateDynamicDiskHeader(0, 0), tableAt |-> 0,
     placed |-> <<>>, blockId |-> 0]

\* The blocks a write of len bytes at offset reaches into: those holding
\* one of its bytes and, for an empty write, the block its offset lies
\* strictly inside of.
Touched(offset, len) ==
    { i \in 0..(offset + len) :
        i * BlockSize < offset + len /\ offset < (i + 1) * BlockSize }

NoWrite ==
    [n |-> 0, offset |-> 0, buffer |-> <<>>, pieces |-> <<>>,
     thrown |-> FALSE, touched |-> {}]

\* Nobody merges.
IdleMerge ==
    /\ work = <<>>
    /\ m = <<>>
    /\ gate = [free |-> MergeConcurrency, queue |-> <<>>]

\* new VHDFile(virtualSize, timestamp)
InitBuilder ==
    /\ \E dataSize \in DataSizes :
          extent = SparseExtent(dataSize, BlockSize, VHD_SECTOR_SIZE * 3)
    /\ bpc = "building"
    /\ file = NoFile
    /\ virt = <<>>
    /\ last = NoWrite
    /\ IdleMerge
    /\ IdleStream

\* The virtual disk after one more write: the new bytes over the old ones.
Overlay(v, buffer, offset) ==
    [p \in DOMAIN v \cup { offset + j - 1 : j \in 1..Len(buffer) } |->
        IF p - offset + 1 \in 1..Len(buffer) THEN buffer[p - offset + 1]
        ELSE v[p]]

\* VHDFile.writeBuffer(buffer, offset)
WriteBufferCall ==
    /\ bpc = "building"
    /\ last.n < MaxWrites
    /\ \E offset \in Offsets, len \in Lengths :
          LET buffer == Buf(last.n + 1, len)
              r == WriteBuffer(extent, buffer, offset)
          IN  /\ extent' = r.extent
              /\ last' = [n |-> last.n + 1, offset |-> offset,
                          buffer |-> buffer, pieces |-> r.pieces,
                          thrown |-> r.thrown,
                          touched |-> last.touched \cup Touched(offset, len)]
              /\ virt' = IF r.thrown THEN virt
                         ELSE Overlay(virt, buffer, offset)
    /\ UNCHANGED <<bpc, file, mergeVars, streamVars>>

\* VHDFile.writeFile(fileName) up to its first await: the footer and the
\* header are built and open(fileName, 'w') is invoked.
WriteFileCall ==
    /\ bpc = "building"
    /\ bpc' = "open"
    /\ file' = [file EXCEPT !.header =
                   CreateDynamicDiskHeader(extent.entryCount, BlockSize)]
    /\ UNCHANGED <<extent, virt, last, mergeVars, streamVars>>

\* An await of writeFile rejects: writeFile rejects.
WriteFileFails ==
    /\ bpc \in {"open", "footer", "header", "table", "block", "trailer"}
    /\ bpc' = "failed"
    /\ UNCHANGED <<extent, file, virt, last, mergeVars, streamVars>>

\* const file = await open(fileName, 'w'); the leading footer is written.
OpenDone ==
    /\ bpc = "open"
    /\ bpc' = "footer"
    /\ file' = [file EXCEPT !.opened = TRUE]
    /\ UNCHANGED <<extent, virt, last, mergeVars, streamVars>>

\* await write(file, fileFooter, ...); the header is written next.
FooterDone ==
    /\ bpc = "footer"
    /\ bpc' = "header"
    /\ file' = [file EXCEPT !.bytes = @ \o FooterBytes]
    /\ UNCHANGED <<extent, virt, last, mergeVars, streamVars>>

\* await write(file, diskHeader, ...); writeOnFile starts: it stamps the
\* table and writes the table's buffer.
HeaderDone ==
    /\ bpc = "header"
    /\ bpc' = "table"
    /\ file' = [file EXCEPT !.bytes = @ \o HeaderBytes]
    /\ extent' = [extent EXCEPT !.buffer =
                     StampTable(@, extent.entries, 0, extent.entryCount,
                                extent.startOffset)]
    /\ UNCHANGED <<virt, last, mergeVars, streamVars>>

\* After a write of writeOnFile: the next allocated block is written, or
\* writeOnFile is over and the trailing footer is written.
AfterChunk(f, from) ==
    LET nb == NextAllocated(extent, from)
    IN  IF nb < extent.entryCount
        THEN /\ bpc' = "block"
             /\ file' = [f EXCEPT !.blockId = nb]
        ELSE /\ bpc' = "trailer"
             /\ file' = f

\* await write(file, this.table.buffer, ...)
TableDone ==
    /\ bpc = "table"
    /\ AfterChunk([file EXCEPT !.bytes = @ \o extent.buffer,
                               !.tableAt = Len(file.bytes)], 0)
    /\ UNCHANGED <<extent, virt, last, mergeVars, streamVars>>

\* await block.writeOnFile(file)
BlockDone ==
    /\ bpc = "block"
    /\ AfterChunk([file EXCEPT
                      !.bytes = @ \o extent.entries[file.blockId],
                      !.placed = (file.blockId :> Len(file.bytes)) @@ @],
                  file.blockId + 1)
    /\ UNCHANGED <<extent, virt, last, mergeVars, streamVars>>

\* await write(file, fileFooter, ...): writeFile resolves.
TrailerDone ==
    /\ bpc = "trailer"
    /\ bpc' = "done"
    /\ file' = [file EXCEPT !.bytes = @ \o FooterBytes]
    /\ UNCHANGED <<extent, virt, last, mergeVars, streamVars>>

NextBuilder ==
    \/ WriteBufferCall
    \/ WriteFileCall
    \/ WriteFileFails
    \/ OpenDone
    \/ FooterDone
    \/ HeaderDone
    \/ TableDone
    \/ BlockDone
    \/ TrailerDone

SpecBuilder == InitBuilder /\ [][NextBuilder]_vars

(***************************************************************************)
(*                           STREAMING CONVERTER                           *)
(*                                                                         *)
(* ReadableRawVHDStream turns the grains of a VMDK parser into a raw disk  *)
(* image followed by a fixed-type footer.  Sizes are scaled as above: a    *)
(* grain is one sector, a padding chunk two sectors (1024 * 1024 bytes in  *)
(* the program).  The Readable base class is the environment: it calls     *)
(* _read, answers each push with true or false, and runs the callbacks     *)
(* given to process.nextTick.                                              *)
(***************************************************************************)

\* Largest capacity of a converted disk, in sectors.
MaxCapSectors == 6

\* Largest number of grains the parser holds.
MaxGrains == 2

\* chunkSize of filePadding, scaled.
ChunkSize == 2 * VHD_SECTOR_SIZE

\* Length of next.grain, scaled.
GrainSize == VHD_SECTOR_SIZE

\* a % b of JavaScript for b > 0: the sign is the dividend's.
JSRem(a, b) == IF a >= 0 THEN a % b ELSE 0 - ((0 - a) % b)

\* The thunks of currentFile.
AllocThunk(n) == [kind |-> "alloc", len |-> n, bytes |-> <<>>]

BufferThunk(buffer) == [kind |-> "buffer", len |-> Len(buffer), bytes |-> buffer]

FooterThunk == [kind |-> "footer", len |-> FooterSize, bytes |-> FooterBytes]

EndThunk == [kind |-> "end", len |-> 0, bytes |-> <<>>]

\* Buffer.alloc(n) throws a RangeError for a negative n.
Throws(thunk) == thunk.kind = "alloc" /\ thunk.len < 0

\* What a thunk returns: a buffer; the end thunk returns null.
Chunk(thunk) ==
    IF thunk.kind = "alloc" THEN [j \in 1..thunk.len |-> 0] ELSE thunk.bytes

\* filePadding: what it appends to currentFile.
MutFilePaddingNoRemainder(currentFile, paddingLength) ==
    IF paddingLength # 0
    THEN LET chunkCount == paddingLength \div ChunkSize
         IN  currentFile \o [i \in 1..chunkCount |-> AllocThunk(ChunkSize)]
    ELSE currentFile

FilePadding(currentFile, paddingLength) ==
    IF paddingLength # 0
    THEN LET chunkCount == paddingLength \div ChunkSize
         IN  currentFile \o [i \in 1..chunkCount |-> AllocThunk(ChunkSize)]
                         \o <<AllocThunk(JSRem(paddingLength, ChunkSize))>>
    ELSE currentFile

\* process.nextTick(() => this.emit('error', e)).
MutEmitNow(k, e) == [k EXCEPT !.errors = Append(@, e)]

NextTickError(k, e) == [k EXCEPT !.ticks = Append(@, e)]

\* Readable.push: null ends the stream and returns false; a buffer goes to
\* the reader and the answer is true while the reader has room.
Push(k, thunk, room) ==
    IF thunk.kind = "end"
    THEN [k EXCEPT !.ended = TRUE, !.full = TRUE]
    ELSE IF k.ended
    THEN [k EXCEPT !.afterEnd = @ + 1, !.full = TRUE]
    ELSE [k EXCEPT !.out = @ \o Chunk(thunk), !.full = (room <= 0),
                   !.pushes = @ + 1]

\* The part of pushNextBlock before it drains: the thunks of the grain, or
\* of the end of the input, and the new position.
PushNextBlock(c, k, next) ==
    IF next = <<>>
    THEN [conv |-> [c EXCEPT !.currentFile =
                        FilePadding(@, c.size - c.position)
                            \o <<FooterThunk, EndThunk>>],
          sink |-> k]
    ELSE LET offset == next[1].lbaBytes
             buffer == next[1].grain
             paddingLength == offset - c.position
         IN  [conv |-> [c EXCEPT !.currentFile =
                            FilePadding(@, paddingLength)
                                \o <<BufferThunk(buffer)>>,
                                 !.position = offset + Len(buffer)],
              sink |-> IF paddingLength < 0
                       THEN NextTickError(k, "order")
                       ELSE k]

\* pushFileUntilFull: shift, call and push thunks until the file is empty,
\* a push answers false, or a thunk throws.
RECURSIVE PushFileUntilFull(_, _, _)
PushFileUntilFull(c, k, room) ==
    IF c.currentFile = <<>>
    THEN [conv |-> c, sink |-> k, threw |-> FALSE]
    ELSE LET thunk == Head(c.currentFile)
             c1 == [c EXCEPT !.currentFile = Tail(@)]
             c2 == IF thunk.kind = "end" THEN [c1 EXCEPT !.done = TRUE] ELSE c1
             k2 == Push(k, thunk, room)
         IN  IF Throws(thunk)
             THEN [conv |-> c1, sink |-> k, threw |-> TRUE]
             ELSE IF k2.full
             THEN [conv |-> c2, sink |-> k2, threw |-> FALSE]
             ELSE PushFileUntilFull(c2, k2, room - 1)

\* pushNextUntilFull at the head of its loop: with again and not done it
\* calls vmdkParser.next(); otherwise the loop ends and busy is reset.
MutPushNextUntilFullStaysBusy(c, p, again) ==
    IF again /\ ~c.done
    THEN [conv |-> c, parser |-> [p EXCEPT !.inflight = @ + 1]]
    ELSE [conv |-> c, parser |-> p]
PushNextUntilFull(c, p, again) ==
    IF again /\ ~c.done
    THEN [conv |-> c, parser |-> [p EXCEPT !.inflight = @ + 1]]
    ELSE [conv |-> [c EXCEPT !.busy = FALSE], parser |-> p]

\* The grains a parser may hold: grain n carries its own bytes.
GrainOffsets == { VHD_SECTOR_SIZE * s : s \in 0..MaxCapSectors }

Sources ==
    UNION { [1..n -> GrainOffsets] : n \in 0..MaxGrains }

Grains(offsets) ==
    [n \in DOMAIN offsets |->
        [lbaBytes |-> offsets[n], grain |-> Buf(n, GrainSize)]]

Capacities == { VHD_SECTOR_SIZE * s : s \in 1..MaxCapSectors }

\* new ReadableRawVHDStream(size, vmdkParser), not read yet.
InitStream ==
    /\ \E size \in Capacities :
          conv = [size |-> size, position |-> 0, done |-> FALSE,
                  busy |-> FALSE, currentFile |-> <<>>]
    /\ \E offsets \in Sources :
          parser = [source |-> Grains(offsets), pos |-> 1,
                    inflight |-> 0, unordered |-> 0]
    /\ sink = [out |-> <<>>, ended |-> FALSE, afterEnd |-> 0, pushes |-> 0,
               full |-> FALSE, errors |-> <<>>, ticks |-> <<>>,
               thrown |-> FALSE, ignored |-> FALSE]
    /\ IdleMerge
    /\ IdleBuilder

\* _read(): the reader asks for data.
MutReadNoBusyGuard ==
    /\ ~sink.ended
    /\ LET k == [sink EXCEPT !.full = FALSE, !.ignored = FALSE]
       IN  IF conv.done
           THEN /\ sink' = [k EXCEPT !.ignored = TRUE]
                /\ UNCHANGED <<conv, parser>>
           ELSE \E room \in 0..Len(conv.currentFile) :
                  LET r == PushFileUntilFull(conv, k, room)
                      l == PushNextUntilFull([r.conv EXCEPT !.busy = TRUE],
                                             parser, TRUE)
                  IN  IF r.threw
                      THEN /\ sink' = [r.sink EXCEPT !.thrown = TRUE]
                           /\ conv' = r.conv
                           /\ UNCHANGED parser
                      ELSE IF r.conv.currentFile = <<>>
                      THEN /\ sink' = r.sink
                           /\ conv' = l.conv
                           /\ parser' = l.parser
                      ELSE /\ sink' = r.sink
                           /\ conv' = r.conv
                           /\ UNCHANGED parser
    /\ UNCHANGED <<mergeVars, builderVars>>
Read ==
    /\ ~sink.ended
    /\ LET k == [sink EXCEPT !.full = FALSE, !.ignored = FALSE]
       IN  IF conv.busy \/ conv.done
           THEN /\ sink' = [k EXCEPT !.ignored = TRUE]
                /\ UNCHANGED <<conv, parser>>
           ELSE \E room \in 0..Len(conv.currentFile) :
                  LET r == PushFileUntilFull(conv, k, room)
                      l == PushNextUntilFull([r.conv EXCEPT !.busy = TRUE],
                                             parser, TRUE)
                  IN  IF r.threw
                      THEN /\ sink' = [r.sink EXCEPT !.thrown = TRUE]
                           /\ conv' = r.conv
                           /\ UNCHANGED parser
                      ELSE IF r.conv.currentFile = <<>>
                      THEN /\ sink' = r.sink
                           /\ conv' = l.conv
                           /\ parser' = l.parser
                      ELSE /\ sink' = r.sink
                           /\ conv' = r.conv
                           /\ UNCHANGED parser
    /\ UNCHANGED <<mergeVars, builderVars>>

\* vmdkParser.next() resolves with a grain or with null; pushNextBlock
\* goes on to its end and pushNextUntilFull to its next await.
NextResolves ==
    /\ parser.inflight > 0
    /\ LET next == IF parser.pos \in DOMAIN parser.source
                   THEN <<parser.source[parser.pos]>>
                   ELSE <<>>
           b == PushNextBlock(conv, [sink EXCEPT !.ignored = FALSE], next)
           p == [parser EXCEPT
                    !.inflight = @ - 1,
                    !.pos = IF next = <<>> THEN @ ELSE @ + 1,
                    !.unordered =
                        IF next # <<>> /\ next[1].lbaBytes < conv.position
                        THEN @ + 1 ELSE @]
       IN  \E room \in 0..Len(b.conv.currentFile) :
              LET r == PushFileUntilFull(b.conv, b.sink, room)
                  l == PushNextUntilFull(r.conv, p,
                                         r.conv.currentFile = <<>>)
              IN  IF r.threw
                  THEN /\ sink' = NextTickError(r.sink, "range")
                       /\ conv' = r.conv
                       /\ parser' = p
                  ELSE /\ sink' = r.sink
                       /\ conv' = l.conv
                       /\ parser' = l.parser
    /\ UNCHANGED <<mergeVars, builderVars>>

\* The next callback of process.nextTick runs: the error is emitted.
Tick ==
    /\ sink.ticks # <<>>
    /\ sink' = [sink EXCEPT !.errors = Append(@, Head(sink.ticks)),
                            !.ticks = Tail(@)]
    /\ UNCHANGED <<conv, parser, mergeVars, builderVars>>

NextStream ==
    \/ Read
    \/ NextResolves
    \/ Tick

SpecStream == InitStream /\ [][NextStream]_vars

\* The reader keeps asking, the parser answers every next(), and Node runs
\* the nextTick queue: a step that can be taken is taken in the end.
SpecStreamFair ==
    /\ SpecStream
    /\ WF_vars(NextStream)

\* ---- a reader that asks only when it has to ----

\* The reader calls _read to start the stream and once after every push
\* that answered false, and at no other time.
ReadOnDemand ==
    /\ sink.full \/ sink.pushes = 0
    /\ Read

NextDemand ==
    \/ ReadOnDemand
    \/ NextResolves
    \/ Tick

SpecDemand == InitStream /\ [][NextDemand]_vars

\* The reader does ask after a false answer, the parser answers every
\* next(), and Node runs the nextTick queue.
SpecDemandFair == SpecDemand /\ WF_vars(NextDemand)

(***************************************************************************)
(*                     PROPERTIES OF THE MERGE ENGINE                      *)
(***************************************************************************)

\* The coalesceBlock entries of a log, in the order of their invocation.
CoalesceCalls(log) == SelectSeq(log, LAMBDA e : e.op = "coalesceBlock")

WriteFooterCalls(log) == SelectSeq(log, LAMBDA e : e.op = "writeFooter")

RECURSIVE SumRet(_)
SumRet(seq) == IF seq = <<>> THEN 0 ELSE Head(seq).ret + SumRet(Tail(seq))

\* The preconditions of a merge, read off the two disks.
Mergeable(d) ==
    /\ d.cBlockSize = d.pBlockSize
    /\ d.pType = DISK_TYPE_DYNAMIC \/ d.pType = DISK_TYPE_DIFFERENCING
    /\ d.cType = DISK_TYPE_DIFFERENCING

\* C1: closeFile is never invoked twice on a handle nor on a handle that was
\* not opened, and once merge has settled closeFile has been invoked exactly
\* once on the parent handle if openFile(parent) succeeded and exactly once
\* on the child handle if openFile(child) succeeded, whatever failed.
C1_HandlesClosed ==
    \A c \in Calls :
        /\ m[c].pClosed <= (IF m[c].parentOpen THEN 1 ELSE 0)
        /\ m[c].cClosed <= (IF m[c].childOpen THEN 1 ELSE 0)
        /\ m[c].pc = "done" =>
              /\ m[c].pClosed = (IF m[c].parentOpen THEN 1 ELSE 0)
              /\ m[c].cClosed = (IF m[c].childOpen THEN 1 ELSE 0)

\* C1 witness: a merge has settled after openFile(child) failed, with the
\* parent handle closed.
C1_Witness ==
    \E c \in Calls :
        /\ m[c].pc = "done"
        /\ m[c].parentOpen /\ ~m[c].childOpen
        /\ m[c].pClosed = 1

\* C2: at most two merge invocations are past admission and not settled.
C2_AtMostTwoRunning ==
    Cardinality({ c \in Calls : Running(c) }) <= 2

\* C2 witness: two merges run and a third call waits in the queue.
C2_Witness ==
    /\ Cardinality({ c \in Calls : Running(c) }) = 2
    /\ \E c \in Calls : m[c].pc = "queued"

\* C3: when the disks break a precondition of merge (block sizes differ,
\* parent neither dynamic nor differencing, child not differencing), no
\* ensureBatSize, coalesceBlock or writeFooter is ever invoked on the parent
\* and the merge does not resolve.
C3_NoMutationOnBadDisks ==
    \A c \in Calls :
        ~Mergeable(work[c]) =>
            /\ m[c].log = <<>>
            /\ m[c].outcome # "resolved"

\* C3 witness: both headers were read, the child is dynamic on a mergeable
\* parent with equal block sizes, and merge is closing with the assertion's
\* error.
C3_Witness ==
    \E c \in Calls :
        /\ m[c].pc = "closeChild" /\ m[c].failed /\ m[c].log = <<>>
        /\ work[c].cBlockSize = work[c].pBlockSize
        /\ m[c].pFooter.diskType = DISK_TYPE_DYNAMIC
        /\ m[c].cFooter.diskType = DISK_TYPE_DYNAMIC

\* C4: the coalesceBlock invocations of a merge name only blocks the child
\* contains, in strictly ascending order, each invoked after the operation
\* before it has completed; a merge that resolves has invoked it exactly
\* once for each block the child contains, every one completed.
C4_CoalesceAscendingOnce ==
    \A c \in Calls :
        LET log == m[c].log
            cs == CoalesceCalls(log)
        IN  /\ \A i \in 1..Len(cs) :
                  cs[i].arg \in work[c].blocks /\ cs[i].arg < work[c].entries
            /\ \A i, j \in 1..Len(cs) : i < j => cs[i].arg < cs[j].arg
            /\ \A i \in 1..(Len(log) - 1) : log[i].st = "ok"
            /\ m[c].outcome = "resolved" =>
                  /\ { cs[i].arg : i \in 1..Len(cs) } = work[c].blocks
                  /\ \A i \in 1..Len(cs) : cs[i].st = "ok"

\* C4 witness: a merge resolved after coalescing two blocks of a child that
\* does not contain every block below its maxTableEntries.
C4_Witness ==
    \E c \in Calls :
        /\ m[c].outcome = "resolved"
        /\ Len(CoalesceCalls(m[c].log)) = 2
        /\ Cardinality(work[c].blocks) < work[c].entries

\* C5: writeFooter is invoked at most once, as the last operation on the
\* parent and after every coalesceBlock has completed; while it runs the
\* parent footer holds the child's currentSize, diskGeometry, originalSize,
\* timestamp and uuid and its own diskType; a merge that resolves has
\* invoked it exactly once.
C5_FooterWrittenLast ==
    \A c \in Calls :
        LET log == m[c].log
            ws == WriteFooterCalls(log)
        IN  /\ Len(ws) <= 1
            /\ Len(ws) = 1 =>
                  /\ log[Len(log)].op = "writeFooter"
                  /\ \A i \in 1..(Len(log) - 1) : log[i].st = "ok"
            /\ m[c].pc = "writeFooter" =>
                  m[c].pFooter =
                      [currentSize |-> ChildFooter(0).currentSize,
                       diskGeometry |-> ChildFooter(0).diskGeometry,
                       originalSize |-> ChildFooter(0).originalSize,
                       timestamp |-> ChildFooter(0).timestamp,
                       uuid |-> ChildFooter(0).uuid,
                       diskType |-> work[c].pType]
            /\ m[c].outcome = "resolved" => Len(ws) = 1 /\ ws[1].st = "ok"

\* C5 witness: writeFooter is in flight after a coalesceBlock completed.
C5_Witness ==
    \E c \in Calls :
        /\ m[c].pc = "writeFooter"
        /\ Len(CoalesceCalls(m[c].log)) >= 1

\* C6: the value a merge resolves with is the sum of the byte counts its
\* coalesceBlock calls returned; it is not negative, and it is 0 when the
\* child contains no block.
C6_MergedByteCount ==
    \A c \in Calls :
        m[c].outcome = "resolved" =>
            /\ m[c].result = SumRet(CoalesceCalls(m[c].log))
            /\ m[c].result >= 0
            /\ work[c].blocks = {} => m[c].result = 0

\* C6 witness: a merge resolved with more bytes than one block reports.
C6_Witness ==
    \E c \in Calls :
        /\ m[c].outcome = "resolved"
        /\ Len(CoalesceCalls(m[c].log)) = 2
        /\ m[c].result > MaxBytes

(***************************************************************************)
(*                   PROPERTIES OF THE SPARSE IMAGE BUILDER                *)
(***************************************************************************)

\* A reader of the produced file: entry i of the table found at the offset
\* the header declares, as its four bytes.
BatEntry(f, i) ==
    SubSeq(f.bytes, f.header.tableOffset + 4 * i + 1,
           f.header.tableOffset + 4 * i + 4)

Sentinel == <<255, 255, 255, 255>>

\* The sector offset an entry holds (entries of the model fit three bytes).
EntrySector(e) == (e[2] * 256 + e[3]) * 256 + e[4]

\* The byte the reader finds at virtual position p: -1 where the table has
\* no entry for p's block, 0 in a block the table leaves unallocated.
ReadBack(f, p) ==
    LET i == p \div f.header.blockSize
        e == BatEntry(f, i)
    IN  IF i >= f.header.maxTableEntries THEN -1
        ELSE IF e = Sentinel THEN 0
        ELSE f.bytes[EntrySector(e) * VHD_SECTOR_SIZE + BitmapSize
                     + (p % f.header.blockSize) + 1]

\* C7 (the claim as stated): once writeFile has resolved, the reader finds
\* at every written virtual position the byte of the last write covering
\* it, and zero at the unwritten positions of allocated blocks.
C7_RoundTrip ==
    bpc = "done" =>
        /\ \A p \in DOMAIN virt : ReadBack(file, p) = virt[p]
        /\ \A i \in DOMAIN extent.entries :
              \A q \in (i * BlockSize)..((i + 1) * BlockSize - 1) :
                  q \notin DOMAIN virt => ReadBack(file, q) \in {0, -1}

\* C7, within the table: the same for the positions whose block index is
\* below the table's entry count.
C7_RoundTripWithinTable ==
    bpc = "done" =>
        /\ \A p \in DOMAIN virt :
              p \div BlockSize < extent.entryCount =>
                  ReadBack(file, p) = virt[p]
        /\ \A i \in DOMAIN extent.entries :
              \A q \in (i * BlockSize)..((i + 1) * BlockSize - 1) :
                  (q \notin DOMAIN virt /\ i < extent.entryCount) =>
                      ReadBack(file, q) = 0

\* A write that spans a block boundary from a non-zero in-block offset over
\* an earlier write, all of it within the table, has been written to file.
C7_WitnessWithinTable ==
    /\ bpc = "done"
    /\ last.n = 2
    /\ last.offset % BlockSize # 0
    /\ Len(last.pieces) >= 2
    /\ \A p \in DOMAIN virt : p \div BlockSize < extent.entryCount
    /\ \E p \in DOMAIN virt : virt[p] < 100

\* The bytes of the file before block i's buffer if the layout is footer,
\* header, table, then the buffers of the written blocks in index order.
ExpectedPlace(i) ==
    FooterSize + HeaderSize + Len(extent.buffer)
        + Cardinality({ j \in last.touched : j < i }) * BlockBufferSize

\* C8: once writeFile has resolved, the table lies at the offset the header
\* declares, 3 sectors; below the entry count, the entry of a block no
\* writeBuffer call reached into is the 0xFFFFFFFF sentinel, and the entry of
\* any other block is the sector at which that block's buffer lies in the
\* file, which is the lengths of footer, header and table plus the buffer
\* sizes of the written blocks of smaller index; these offsets increase
\* with the index.
C8_BatMatchesLayout ==
    bpc = "done" =>
        /\ file.header.tableOffset = 3 * VHD_SECTOR_SIZE
        /\ file.tableAt = file.header.tableOffset
        /\ file.header.maxTableEntries = extent.entryCount
        /\ \A i \in 0..(extent.entryCount - 1) :
              IF i \notin last.touched
              THEN BatEntry(file, i) = Sentinel /\ i \notin DOMAIN file.placed
              ELSE /\ BatEntry(file, i) # Sentinel
                   /\ BatEntry(file, i)[1] = 0
                   /\ i \in DOMAIN file.placed
                   /\ EntrySector(BatEntry(file, i)) * VHD_SECTOR_SIZE
                         = file.placed[i]
                   /\ file.placed[i] = ExpectedPlace(i)
                   /\ SubSeq(file.bytes, file.placed[i] + 1,
                             file.placed[i] + BlockBufferSize)
                         = extent.entries[i]
        /\ \A i, j \in last.touched :
              (i < j /\ j < extent.entryCount) =>
                  EntrySector(BatEntry(file, i)) < EntrySector(BatEntry(file, j))

\* C8 witness: writeFile has resolved on a table of two entries with both
\* blocks written, the second write having left the first block alone.
C8_Witness ==
    /\ bpc = "done"
    /\ extent.entryCount = 2
    /\ {0, 1} \subseteq last.touched
    /\ last.n = 2 /\ Touched(last.offset, Len(last.buffer)) = {1}

(***************************************************************************)
(*                  PROPERTIES OF THE STREAMING CONVERTER                  *)
(***************************************************************************)

\* The grains are in non-decreasing order, do not overlap and end within
\* the capacity.
InOrder(source, size) ==
    /\ \A n \in DOMAIN source :
          /\ source[n].lbaBytes + Len(source[n].grain) <= size
          /\ n > 1 =>
                source[n - 1].lbaBytes + Len(source[n - 1].grain)
                    <= source[n].lbaBytes

\* The disk image the grains describe, followed by the footer.
Image(source, size) ==
    [j \in 1..size |->
        IF \E n \in DOMAIN source :
              source[n].lbaBytes < j
                  /\ j <= source[n].lbaBytes + Len(source[n].grain)
        THEN LET n == CHOOSE n \in DOMAIN source :
                        source[n].lbaBytes < j
                            /\ j <= source[n].lbaBytes + Len(source[n].grain)
             IN  source[n].grain[j - source[n].lbaBytes]
        ELSE 0]
    \o FooterBytes

IsPrefix(s, t) ==
    /\ Len(s) <= Len(t)
    /\ \A j \in 1..Len(s) : s[j] = t[j]

\* C9: for grains in order, without overlap and within the capacity, what
\* the converter has pushed is always a prefix of the capacity bytes of the
\* image followed by the footer; once the end marker is pushed it is all of
\* it, nothing is pushed after the end marker and no error is raised; and
\* with a reader that keeps reading the end marker is pushed.
C9_CompleteOutput ==
    /\ [](InOrder(parser.source, conv.size) =>
            /\ IsPrefix(sink.out, Image(parser.source, conv.size))
            /\ sink.ended => sink.out = Image(parser.source, conv.size)
            /\ sink.afterEnd = 0
            /\ sink.ticks = <<>> /\ sink.errors = <<>>
            /\ ~sink.thrown)
    /\ <>(InOrder(parser.source, conv.size) => sink.ended)

\* Two grains with a hole of a whole chunk before the first, a hole
\* between them and a tail to pad, and the end reached.
C9_Witness ==
    /\ InOrder(parser.source, conv.size)
    /\ Len(parser.source) = 2
    /\ parser.source[1].lbaBytes >= ChunkSize
    /\ parser.source[2].lbaBytes > parser.source[1].lbaBytes + GrainSize
    /\ parser.source[2].lbaBytes + GrainSize < conv.size
    /\ sink.ended
    /\ Len(sink.out) = conv.size + FooterSize

Count(seq, e) == Cardinality({ j \in DOMAIN seq : seq[j] = e })

\* C10: a grain below the cursor raises nothing synchronously: no
\* exception leaves _read or the grain step, the order error is queued for
\* a later tick and not emitted in the step that receives the grain, and
\* in the end the queue of ticks is empty for good: every order error has
\* been emitted.
C10_OrderErrorIsAsync ==
    /\ [](/\ ~sink.thrown
          /\ Count(sink.ticks, "order") + Count(sink.errors, "order")
                = parser.unordered)
    /\ [][parser.unordered' > parser.unordered =>
            /\ sink.errors' = sink.errors
            /\ Count(sink.ticks', "order") = Count(sink.ticks, "order") + 1]_vars
    /\ <>[](sink.ticks = <<>>)

\* An out-of-order grain was received and its error has been emitted.
C10_Witness ==
    /\ parser.unordered > 0
    /\ Count(sink.errors, "order") = parser.unordered

\* C11: once a push has answered false, the converter has no call of
\* vmdkParser.next() in flight until the reader calls _read again: sink.full
\* is set by a push that answers false and reset by _read, and a call in
\* flight while it is set was made after the answer, in the same step.
C11_Backpressure == sink.full => parser.inflight = 0

\* C12: once writeFile has settled, resolved or rejected, the file it
\* opened has been closed.
C12_WriteFileHandleReleased ==
    (bpc \in {"done", "failed"} /\ file.opened) => file.closed

\* A call past the limiter: it runs or has settled.
Admitted(c) == m[c].pc \notin {"idle", "queued"}

\* C13: the calls are made in the order of their numbers.  No call is
\* admitted before a call made earlier; the limiter's queue holds the
\* waiting calls in the order they were made, and only while no slot is
\* free; whenever a running merge settles, resolved or rejected, the head of
\* the queue is admitted in the same step, and with nobody waiting the slot
\* goes back to the limiter; and, the operations of running merges
\* settling, every waiting call is admitted in the end.
C13_FifoAdmission ==
    /\ [](/\ \A b, c \in QueueCalls : (b < c /\ Admitted(c)) => Admitted(b)
          /\ \A i, j \in DOMAIN gate.queue :
                i < j => gate.queue[i] < gate.queue[j]
          /\ { gate.queue[i] : i \in DOMAIN gate.queue }
                = { c \in QueueCalls : m[c].pc = "queued" }
          /\ gate.queue # <<>> => gate.free = 0)
    /\ [][\A c \in QueueCalls :
            (Running(c) /\ m'[c].pc = "done") =>
                IF gate.queue # <<>>
                THEN /\ m'[Head(gate.queue)].pc = "openParent"
                     /\ gate'.queue = Tail(gate.queue)
                     /\ gate'.free = gate.free
                ELSE gate'.free = gate.free + 1]_vars
    /\ <>[](\A c \in QueueCalls : m[c].pc # "queued")

\* C13 witness: the last two calls both had to wait and both run now, one
\* admitted when a merge resolved and the other when a merge rejected.
C13_Witness ==
    /\ \A c \in QueueCalls :
          c > MergeConcurrency => (m[c].waited /\ Running(c))
    /\ \E b, c \in QueueCalls :
          /\ m[b].outcome = "resolved"
          /\ m[c].outcome = "rejected"

\* C14: at most one call of pushNextBlock is in flight, and only while busy
\* is set; and a step taken while busy or done is set in which no next()
\* resolves, which is a _read or a tick, pushes nothing, calls no next()
\* and leaves the converter as it is.
C14_SingleCycle ==
    /\ [](/\ parser.inflight <= 1
          /\ parser.inflight = 1 => conv.busy
          /\ sink.ignored => (conv.busy \/ conv.done))
    /\ [][((conv.busy \/ conv.done)
             /\ parser.pos' = parser.pos
             /\ parser.inflight' >= parser.inflight) =>
            /\ conv' = conv
            /\ parser' = parser
            /\ sink.out' = sink.out
            /\ sink.pushes' = sink.pushes
            /\ sink.ended' = sink.ended]_vars

\* C14 witness: after a first grain was pushed, a _read came while the next
\* call of pushNextBlock was in flight and was ignored.
C14_Witness ==
    /\ sink.ignored
    /\ conv.busy
    /\ parser.inflight = 1
    /\ sink.pushes > 0

\* C15: the cursor never decreases, and the step that receives a grain
\* whose offset is below the cursor enqueues nothing, pushes nothing and
\* leaves the cursor where it is.
C15_AscendingOffsets ==
    [][/\ conv.position' >= conv.position
       /\ parser.unordered' > parser.unordered =>
             /\ conv.position' = conv.position
             /\ conv.currentFile' = conv.currentFile
             /\ sink.out' = sink.out]_vars

\* C16: with grains in order and a reader that asks again only after a push
\* answered false, the converter is never left with nobody to resume it:
\* until the end marker is pushed a call of next() is in flight, or a false
\* answer stands and the reader will ask, or the stream has not started;
\* and the end marker is pushed in the end.
C16_EndMarkerReached ==
    /\ [](InOrder(parser.source, conv.size) =>
            \/ sink.ended
            \/ parser.inflight = 1
            \/ sink.full
            \/ sink.pushes = 0 /\ ~conv.busy)
    /\ <>(InOrder(parser.source, conv.size) => sink.ended)

\* C16 witness: a full load of grains in order has been converted to the
\* end, with paddings pushed besides the grains and the footer, and the
\* converter is at rest.
C16_Witness ==
    /\ InOrder(parser.source, conv.size)
    /\ Len(parser.source) = MaxGrains
    /\ sink.ended /\ conv.done /\ ~conv.busy
    /\ parser.inflight = 0
    /\ sink.pushes >= Len(parser.source) + 3

\* The operations of merge in flight on handle h in call state s: a read of
\* a Promise.all, awaited or left behind by its rejection; the awaited
\* operation on parentVhd (coalesceBlock also reads the child); closeFile.
InFlight(s, h) ==
    (IF h \in s.pend THEN 1 ELSE 0)
    + (IF h \in s.stray THEN 1 ELSE 0)
    + (IF h = "parent" /\ s.pc \in {"ensureBatSize", "coalesceBlock",
                                    "writeFooter", "closeParent"}
       THEN 1 ELSE 0)
    + (IF h = "child" /\ s.pc \in {"coalesceBlock", "closeChild"}
       THEN 1 ELSE 0)

\* C17: within a merge at most one operation is in flight on the parent's
\* handle and at most one on the child's.
C17_OneOperationPerHandle ==
    \A c \in Calls : \A h \in Handles : InFlight(m[c], h) <= 1

\* C18: a coalesceBlock or writeFooter that failed is the last operation
\* invoked on the parent: after a coalesceBlock failed at block k no block
\* is coalesced any more (those before it are below k and succeeded) and
\* writeFooter is not invoked; and a merge that has settled after such a
\* failure has rejected, with no byte count, closeFile having been invoked
\* on both handles.
C18_FailureStopsMerge ==
    \A c \in Calls :
        \A i \in DOMAIN m[c].log :
            (m[c].log[i].op \in {"coalesceBlock", "writeFooter"}
                /\ m[c].log[i].st = "failed") =>
                /\ i = Len(m[c].log)
                /\ \A j \in 1..(i - 1) :
                      /\ m[c].log[j].st = "ok"
                      /\ (m[c].log[j].op = "coalesceBlock"
                            /\ m[c].log[i].op = "coalesceBlock") =>
                            m[c].log[j].arg < m[c].log[i].arg
                /\ m[c].log[i].op = "coalesceBlock" =>
                      WriteFooterCalls(m[c].log) = <<>>
                /\ m[c].outcome # "resolved"
                /\ m[c].pc \in {"closeChild", "closeParent", "done"}
                /\ m[c].cClosed = 1
                /\ m[c].pc \in {"closeParent", "done"} => m[c].pClosed = 1
                /\ m[c].pc = "done" =>
                      (m[c].outcome = "rejected" /\ m[c].result = 0)

\* C18 witness: a merge has settled after coalesceBlock failed at the second
\* of three blocks of the child, the first one merged.
C18_Witness ==
    \E c \in Calls :
        /\ m[c].pc = "done"
        /\ Len(CoalesceCalls(m[c].log)) = 2
        /\ CoalesceCalls(m[c].log)[1].st = "ok"
        /\ CoalesceCalls(m[c].log)[2].st = "failed"
        /\ Cardinality(work[c].blocks) = 3

\* The buffers of the pieces, one after the other.
RECURSIVE Joined(_)
Joined(pieces) ==
    IF pieces = <<>> THEN <<>>
    ELSE Head(pieces).blockBuffer \o Joined(Tail(pieces))

\* C19: the pieces the last writeBuffer call handed to _writeBlock go to
\* consecutive blocks from the block of its offset on; the first lies at
\* the offset's place within its block and every later one at 0, always
\* below the block size; each fits the rest of its block; joined in block
\* order they are the buffer; and _writeBlock did not throw.
C19_PiecesFitBlocks ==
    last.n > 0 =>
        /\ ~last.thrown
        /\ \A k \in DOMAIN last.pieces :
              /\ last.pieces[k].index = last.offset \div BlockSize + k - 1
              /\ last.pieces[k].blockOffset
                    = (IF k = 1 THEN last.offset % BlockSize ELSE 0)
              /\ last.pieces[k].blockOffset < BlockSize
              /\ Len(last.pieces[k].blockBuffer) + last.pieces[k].blockOffset
                    <= BlockSize
        /\ Joined(last.pieces) = last.buffer

\* C19 witness: a write from the last byte of a block over the whole next
\* block into a third one: three pieces.
C19_Witness ==
    /\ last.n > 0
    /\ Len(last.pieces) = 3
    /\ last.offset % BlockSize = BlockSize - 1
    /\ Len(last.pieces[1].blockBuffer) = 1
    /\ Len(last.pieces[2].blockBuffer) = BlockSize

\* C20: once writeFile has resolved, every block writeBuffer has allocated
\* in the extent has an entry in the table, that entry points at the
\* block's buffer, and the buffer is in the file.
C20_AllocatedBlocksEmitted ==
    bpc = "done" =>
        \A i \in DOMAIN extent.entries :
            /\ i < file.header.maxTableEntries
            /\ i \in DOMAIN file.placed
            /\ BatEntry(file, i) # Sentinel
            /\ EntrySector(BatEntry(file, i)) * VHD_SECTOR_SIZE
                  = file.placed[i]

============================================================================
